---- MODULE Spec2Model ----
(***************************************************************************)
(* Publication lifecycle of DjangoFlix video records                       *)
(* (src/src/videos/models.py, src/src/videos/admin.py).                    *)
(*                                                                         *)
(* The table of Video rows, the clock read by timezone.now(), the outcome  *)
(* of the last operation, the in-flight instances of concurrent writers    *)
(* and a probe row for the two visibility predicates are the state.        *)
(* Four specifications share the variables:                                *)
(*   Spec      one client: create, update, bulk unpublish, clock ticks;    *)
(*             every value of active, state and publish_timestamp          *)
(*   SpecSlug  one client: create and update with every title and slug     *)
(*             input, the publication fields left at their defaults        *)
(*   SpecConc  two clients creating rows concurrently                      *)
(*   SpecPure  is_published and published() applied to arbitrary rows      *)
(* The fields description and created play no part in any operation        *)
(* modelled here and are left out of the rows.                             *)
(***************************************************************************)
EXTENDS Integers, Sequences, FiniteSets, TLC

VARIABLES store, now, result, procs, probe

vars == <<store, now, result, procs, probe>>

----------------------------------------------------------------------------
(* Bounds and input pools *)

\* Largest clock reading; timestamps are the readings 0..MaxTime.
MaxTime == 1

Times == 0..MaxTime

\* A null column value (null=True) / Python None for a timestamp.
NULL == -1

\* PublishStateOptions.DRAFT / PublishStateOptions.PUBLISH
DRAFT == "DR"

PUBLISH == "PU"

PublishStateOptions == {DRAFT, PUBLISH}

\* A null slug column. Slugs proper are sequences of single characters.
NoSlug == <<"NULL">>

\* What get_video_id returns for a row that is not published.
None == "None"

\* Titles written as sequences of characters.
Titles == { <<"H", "i", "!">>, <<"h", "i">>, <<"!">>, <<"h", " ", "-", "i">> }

\* The titles used where the title is not what is being examined: one that
\* yields the slug "hi" and one that yields the empty slug.
LifecycleTitles == { <<"H", "i", "!">>, <<"!">> }

\* The titles of concurrent creates: two that yield the slug "hi", one that
\* yields the empty slug.
ConcTitles == { <<"H", "i", "!">>, <<"h", "i">>, <<"!">> }

\* Slugs a caller may supply: none, an empty one, or an explicit one.
SlugInputs == { NoSlug, <<>>, <<"x">> }

VideoIds == { "v1", "v2" }

Procs == { "p1", "p2" }

----------------------------------------------------------------------------
(* django.utils.text.slugify *)

Lower(c) == IF c = "H" THEN "h" ELSE c

\* \w
IsWordChar(c) == c \in {"h", "i", "x", "H", "_"}

\* [-\s]
IsSepChar(c) == c \in {" ", "-"}

RECURSIVE StripUnsafe(_)
\* re.sub(r'[^\w\s-]', '', value.lower())
StripUnsafe(s) ==
  IF s = <<>> THEN <<>>
  ELSE LET c == Lower(Head(s))
       IN IF IsWordChar(c) \/ IsSepChar(c)
          THEN <<c>> \o StripUnsafe(Tail(s))
          ELSE StripUnsafe(Tail(s))

RECURSIVE DropSeps(_)
DropSeps(s) ==
  IF s # <<>> /\ IsSepChar(Head(s)) THEN DropSeps(Tail(s)) ELSE s

RECURSIVE CollapseSeps(_)
\* re.sub(r'[-\s]+', '-', value)
CollapseSeps(s) ==
  IF s = <<>> THEN <<>>
  ELSE IF IsSepChar(Head(s))
       THEN <<"-">> \o CollapseSeps(DropSeps(Tail(s)))
       ELSE <<Head(s)>> \o CollapseSeps(Tail(s))

RECURSIVE LStrip(_)
LStrip(s) ==
  IF s # <<>> /\ Head(s) \in {"-", "_"} THEN LStrip(Tail(s)) ELSE s

RECURSIVE RStrip(_)
RStrip(s) ==
  IF s # <<>> /\ s[Len(s)] \in {"-", "_"}
  THEN RStrip(SubSeq(s, 1, Len(s) - 1))
  ELSE s

\* .strip('-_')
slugify(title) == RStrip(LStrip(CollapseSeps(StripUnsafe(title))))

----------------------------------------------------------------------------
(* Rows and the two visibility predicates *)

\* Truth value of a timestamp in "not self.publish_timestamp": None is
\* false, every datetime is true.
Truthy(ts) == ts # NULL

\* SQL comparison "column <= value": unknown when the column is NULL.
SqlLte(col, val) ==
  IF col = NULL THEN "unknown" ELSE IF col <= val THEN "true" ELSE "false"

\* is_published with the boundary excluded (publish_timestamp < now).
is_published_strict(self, t) ==
  IF ~self.active THEN FALSE
  ELSE IF self.state # PUBLISH THEN FALSE
  ELSE IF ~Truthy(self.publish_timestamp) THEN FALSE
  ELSE self.publish_timestamp < t

\* is_published without the test of active.
is_published_ignores_active(self, t) ==
  IF self.state # PUBLISH THEN FALSE
  ELSE IF ~Truthy(self.publish_timestamp) THEN FALSE
  ELSE self.publish_timestamp <= t

\* Video.is_published with timezone.now() = t
is_published(self, t) ==
  IF ~self.active THEN FALSE
  ELSE IF self.state # PUBLISH THEN FALSE
  ELSE IF ~Truthy(self.publish_timestamp) THEN FALSE
  ELSE self.publish_timestamp <= t

\* Video.get_video_id with timezone.now() = t
get_video_id(self, t) == IF is_published(self, t) THEN self.video_id ELSE None

\* published() with publish_timestamp__lt in place of publish_timestamp__lte.
published_strict(qs, t) ==
  { id \in DOMAIN qs :
      /\ qs[id].state = PUBLISH
      /\ SqlLte(qs[id].publish_timestamp, t) = "true"
      /\ qs[id].publish_timestamp # t
      /\ qs[id].active = TRUE }

\* VideoQuerySet.published over the rows of table qs, timezone.now() = t:
\* WHERE state = 'PU' AND publish_timestamp <= t AND active
published(qs, t) ==
  { id \in DOMAIN qs :
      /\ qs[id].state = PUBLISH
      /\ SqlLte(qs[id].publish_timestamp, t) = "true"
      /\ qs[id].active = TRUE }

\* VideoPublishedProxyAdmin.get_queryset: the default manager's queryset
\* (VideoManager.get_queryset, unfiltered) filtered by active=True.
AdminPublishedQueryset(qs) == { id \in DOMAIN qs : qs[id].active = TRUE }

\* VideoAllAdmin's queryset: every row.
AdminAllQueryset(qs) == DOMAIN qs

----------------------------------------------------------------------------
(* The write path *)

\* clean that never raises.
clean_skipped(self) == "ok"

\* clean with the "not" dropped from the test of publish_timestamp.
clean_without_not(self) ==
  IF self.state = PUBLISH /\ Truthy(self.publish_timestamp)
  THEN "MissingPublishTimestamp"
  ELSE "ok"

\* Video.clean
clean(self) ==
  IF self.state = PUBLISH /\ ~Truthy(self.publish_timestamp)
  THEN "MissingPublishTimestamp"
  ELSE "ok"

\* djangoflix.db.receivers.publish_state_pre_save: the validation step run
\* before every commit.
publish_state_pre_save(instance) == clean(instance)

\* slugify_pre_save that derives the slug from the title at every save.
slugify_pre_save_always(instance) ==
  [instance EXCEPT !.slug = slugify(instance.title)]

\* djangoflix.db.receivers.slugify_pre_save: derive the slug when it is
\* null or empty, leave it alone otherwise.
slugify_pre_save(instance) ==
  IF instance.slug = NoSlug \/ instance.slug = <<>>
  THEN [instance EXCEPT !.slug = slugify(instance.title)]
  ELSE instance

\* The slug column without unique=True.
SlugTaken_unconstrained(table, inst, self) == FALSE

\* Does some other row of the table hold this slug (unique=True on slug;
\* NULLs never collide)?
SlugTaken(table, inst, self) ==
  /\ inst.slug # NoSlug
  /\ \E id \in DOMAIN table : id # self /\ table[id].slug = inst.slug

\* Does some other row of the table hold this video_id (unique=True)?
VideoIdTaken(table, inst, self) ==
  \E id \in DOMAIN table : id # self /\ table[id].video_id = inst.video_id

\* The uniqueness constraints a write of inst as row self would violate
\* (self = 0 for an insert).
UniqueViolations(table, inst, self) ==
  (IF SlugTaken(table, inst, self) THEN {"DuplicateSlug"} ELSE {})
    \cup
  (IF VideoIdTaken(table, inst, self) THEN {"DuplicateExternalId"} ELSE {})

\* auto_now=True on updated: set by Model.save() to the time of the save.
AutoNow(inst, t) == [inst EXCEPT !.updated = t]

\* The id the table gives to the next inserted row.
NextId(table) == Cardinality(DOMAIN table) + 1

Insert(table, row) ==
  [id \in DOMAIN table \cup {NextId(table)} |->
     IF id \in DOMAIN table THEN table[id] ELSE row]

NewInstance(title, slug, video_id, active, state, ts) ==
  [title |-> title, slug |-> slug, video_id |-> video_id, active |-> active,
   state |-> state, publish_timestamp |-> ts, updated |-> NULL]

\* What the caller gets back: the outcome of the operation and, for the
\* admin action, the count shown by message_user (none: the empty set).
Outcome(outcome, reported) == [outcome |-> outcome, reported |-> reported]

----------------------------------------------------------------------------
(* Initial state *)

BlankInstance == NewInstance(<<>>, NoSlug, "v1", TRUE, DRAFT, NULL)

Idle == [pc |-> "idle", inst |-> BlankInstance, prechecked |-> FALSE,
         outcome |-> "none"]

ProbeOff == [pc |-> "off", rec |-> BlankInstance, at |-> 0,
             selected |-> FALSE, visible |-> FALSE, video_id |-> None]

Init ==
  /\ store = << >>
  /\ now = 0
  /\ result = Outcome("none", {})
  /\ procs = [p \in Procs |-> Idle]
  /\ probe = ProbeOff

----------------------------------------------------------------------------
(* One client *)

\* create(input): pre_save receivers, then INSERT under the constraints.
Create(title, slug, video_id, active, state, ts) ==
  LET inst == NewInstance(title, slug, video_id, active, state, ts)
      valid == publish_state_pre_save(inst)
      row == AutoNow(slugify_pre_save(inst), now)
      bad == UniqueViolations(store, row, 0)
  IN /\ IF valid # "ok"
        THEN /\ result' = Outcome(valid, {})
             /\ store' = store
        ELSE IF bad # {}
        THEN /\ \E e \in bad : result' = Outcome(e, {})
             /\ store' = store
        ELSE /\ result' = Outcome("ok", {})
             /\ store' = Insert(store, row)
     /\ UNCHANGED <<now, procs, probe>>

\* update(id, patch): load the row, set the patched fields, save.
Update(id, title, active, state, ts) ==
  /\ id \in DOMAIN store
  /\ LET inst == [store[id] EXCEPT !.title = title, !.active = active,
                                   !.state = state, !.publish_timestamp = ts]
         valid == publish_state_pre_save(inst)
         row == AutoNow(slugify_pre_save(inst), now)
         bad == UniqueViolations(store, row, id)
     IN IF valid # "ok"
        THEN /\ result' = Outcome(valid, {})
             /\ store' = store
        ELSE IF bad # {}
        THEN /\ \E e \in bad : result' = Outcome(e, {})
             /\ store' = store
        ELSE /\ result' = Outcome("ok", {})
             /\ store' = [store EXCEPT ![id] = row]
  /\ UNCHANGED <<now, procs, probe>>

\* VideoPublishedProxyAdmin.unpublish_selected on the selected rows S of the
\* admin's changelist: queryset.update(active=False) is committed, then the
\* arguments of message_user are evaluated and messages.SUCCESS raises
\* NameError (admin.py never imports messages), so no message is delivered.
BulkUnpublish(S) ==
  /\ S # {}
  /\ S \subseteq AdminPublishedQueryset(store)
  /\ store' = [id \in DOMAIN store |->
                 IF id \in S THEN [store[id] EXCEPT !.active = FALSE]
                 ELSE store[id]]
  /\ result' = Outcome("NameError", {})
  /\ UNCHANGED <<now, procs, probe>>

\* The clock advances; nothing else happens.
Tick ==
  /\ now < MaxTime
  /\ now' = now + 1
  /\ UNCHANGED <<store, result, procs, probe>>

\* The video id a client of Spec offers for a new row: one not yet stored
\* while there is one, a stored one (a duplicate) once all are stored.
\* SpecSlug and SpecConc offer every id at every create.
OfferedVideoIds(table) ==
  LET unused == { v \in VideoIds :
                    \A id \in DOMAIN table : table[id].video_id # v }
  IN IF unused = {} THEN { CHOOSE v \in VideoIds : TRUE }
     ELSE { CHOOSE v \in unused : TRUE }

Next ==
  \/ \E title \in LifecycleTitles, video_id \in OfferedVideoIds(store),
        active \in BOOLEAN,
        state \in PublishStateOptions, ts \in Times \cup {NULL} :
       Create(title, NoSlug, video_id, active, state, ts)
  \/ \E id \in DOMAIN store, active \in BOOLEAN,
        state \in PublishStateOptions, ts \in Times \cup {NULL} :
       Update(id, store[id].title, active, state, ts)
  \/ \E S \in SUBSET (DOMAIN store) : BulkUnpublish(S)
  \/ Tick

Spec == Init /\ [][Next]_vars

NextSlug ==
  \/ \E title \in Titles, slug \in SlugInputs, video_id \in VideoIds :
       Create(title, slug, video_id, TRUE, DRAFT, NULL)
  \/ \E id \in DOMAIN store, title \in Titles, active \in BOOLEAN :
       Update(id, title, active, store[id].state, store[id].publish_timestamp)

SpecSlug == Init /\ [][NextSlug]_vars

----------------------------------------------------------------------------
(* Two clients creating rows concurrently.  A create is two steps: the    *)
(* client prepares the instance (pre_save receivers, then a look-up that  *)
(* the unique values are free), and later the INSERT is committed under   *)
(* the table's constraints.  The other client may act in between.         *)

\* The uniqueness look-up made before the INSERT is sent.
PreCheck(table, inst) == UniqueViolations(table, inst, 0)

BeginCreate(p, title, slug, video_id, state) ==
  /\ procs[p].pc = "idle"
  /\ LET inst == NewInstance(title, slug, video_id, TRUE, state, NULL)
         valid == publish_state_pre_save(inst)
         ready == slugify_pre_save(inst)
         taken == PreCheck(store, ready)
     IN IF valid # "ok"
        THEN procs' = [procs EXCEPT ![p] =
               [pc |-> "done", inst |-> inst, prechecked |-> FALSE,
                outcome |-> valid]]
        ELSE IF taken # {}
        THEN \E e \in taken :
               procs' = [procs EXCEPT ![p] =
                 [pc |-> "done", inst |-> ready, prechecked |-> FALSE,
                  outcome |-> e]]
        ELSE procs' = [procs EXCEPT ![p] =
               [pc |-> "saving", inst |-> ready, prechecked |-> TRUE,
                outcome |-> "none"]]
  /\ UNCHANGED <<store, now, result, probe>>

Commit(p) ==
  /\ procs[p].pc = "saving"
  /\ LET row == AutoNow(procs[p].inst, now)
         bad == UniqueViolations(store, row, 0)
     IN IF bad # {}
        THEN /\ \E e \in bad :
                  procs' = [procs EXCEPT ![p].pc = "done", ![p].outcome = e]
             /\ store' = store
        ELSE /\ procs' = [procs EXCEPT ![p].pc = "done",
                                       ![p].outcome = "ok"]
             /\ store' = Insert(store, row)
  /\ UNCHANGED <<now, result, probe>>

\* The client takes its result and is free for another create.
Finish(p) ==
  /\ procs[p].pc = "done"
  /\ procs' = [procs EXCEPT ![p] = Idle]
  /\ UNCHANGED <<store, now, result, probe>>

NextConc ==
  \/ \E p \in Procs, title \in ConcTitles, video_id \in VideoIds,
        state \in PublishStateOptions :
       BeginCreate(p, title, NoSlug, video_id, state)
  \/ \E p \in Procs : Commit(p)
  \/ \E p \in Procs : Finish(p)

SpecConc == Init /\ [][NextConc]_vars

----------------------------------------------------------------------------
(* The two visibility predicates applied to one arbitrary row at one      *)
(* arbitrary clock reading.                                               *)

ProbeRows ==
  { NewInstance(title, NoSlug, video_id, active, state, ts) :
      title \in LifecycleTitles, video_id \in VideoIds, active \in BOOLEAN,
      state \in PublishStateOptions, ts \in Times \cup {NULL} }

InitPure ==
  /\ store = << >>
  /\ now = 0
  /\ result = Outcome("none", {})
  /\ procs = [p \in Procs |-> Idle]
  /\ probe \in { [pc |-> "ready", rec |-> r, at |-> t, selected |-> FALSE,
                  visible |-> FALSE, video_id |-> None] :
                 r \in ProbeRows, t \in Times }

\* Video.objects.published(), obj.is_published and obj.get_video_id() all
\* evaluated on the row with the clock reading probe.at.
Evaluate ==
  /\ probe.pc = "ready"
  /\ probe' = [probe EXCEPT
       !.pc = "evaluated",
       !.selected = (1 \in published(<<probe.rec>>, probe.at)),
       !.visible = is_published(probe.rec, probe.at),
       !.video_id = get_video_id(probe.rec, probe.at)]
  /\ UNCHANGED <<store, now, result, procs>>

NextPure == Evaluate

SpecPure == InitPure /\ [][NextPure]_vars

----------------------------------------------------------------------------
(* Properties *)

\* C1 (SpecPure): for every row and every clock reading, published()
\* evaluated at that reading selects the row exactly when is_published
\* evaluated at the same reading is true, including at
\* publish_timestamp = now and for a null publish_timestamp.
C1_FilterMatchesInstanceCheck ==
  probe.pc = "evaluated" => (probe.selected <=> probe.visible)

\* A row evaluated at the boundary publish_timestamp = now, selected and
\* visible.
C1_Witness ==
  /\ probe.pc = "evaluated"
  /\ probe.rec.publish_timestamp = probe.at
  /\ probe.selected
  /\ probe.visible

\* C2 (Spec): in every reachable state every stored row with state PUBLISH
\* has a non-null publish_timestamp.
C2_PublishHasTimestamp ==
  \A id \in DOMAIN store :
    store[id].state = PUBLISH => store[id].publish_timestamp # NULL

\* A PUBLISH row is stored and a write has just been rejected for its
\* missing timestamp.
C2_Witness ==
  /\ result.outcome = "MissingPublishTimestamp"
  /\ \E id \in DOMAIN store : store[id].state = PUBLISH

\* C3 (Spec): a create or update whose resulting row has state PUBLISH and a
\* null publish_timestamp fails with MissingPublishTimestamp and leaves the
\* table exactly as it was.
C3_InvalidWriteRejected ==
  [][ /\ \A title \in LifecycleTitles, video_id \in OfferedVideoIds(store),
            active \in BOOLEAN :
           Create(title, NoSlug, video_id, active, PUBLISH, NULL)
             => /\ result'.outcome = "MissingPublishTimestamp"
                /\ store' = store
      /\ \A id \in DOMAIN store, active \in BOOLEAN :
           Update(id, store[id].title, active, PUBLISH, NULL)
             => /\ result'.outcome = "MissingPublishTimestamp"
                /\ store' = store ]_vars

\* A write was rejected for its missing timestamp while rows are stored.
C3_Witness ==
  /\ result.outcome = "MissingPublishTimestamp"
  /\ DOMAIN store # {}

\* C4 (Spec): the rows listed by VideoPublishedProxyAdmin are exactly the
\* rows satisfying published(now): no DRAFT row, no inactive row, no row
\* whose publish_timestamp is null or later than now, and every visible row.
C4_PublishedProjectionExact ==
  AdminPublishedQueryset(store) = published(store, now)

\* C5 (Spec): bulk unpublish of the rows S sets active = false on each,
\* reports the count |S|, changes neither state nor publish_timestamp of any
\* row nor any field of a row outside S; afterwards no row of S is selected
\* by published() at any time and every row of S is still in the All
\* projection.
C5_BulkUnpublish ==
  [][ \A S \in SUBSET (DOMAIN store) :
        BulkUnpublish(S) =>
          /\ DOMAIN store' = DOMAIN store
          /\ \A id \in S :
               /\ store'[id].active = FALSE
               /\ store'[id].state = store[id].state
               /\ store'[id].publish_timestamp = store[id].publish_timestamp
          /\ \A id \in DOMAIN store \ S : store'[id] = store[id]
          /\ result'.reported = {Cardinality(S)}
          /\ \A id \in S, t \in Times : id \notin published(store', t)
          /\ S \subseteq AdminAllQueryset(store') ]_vars

\* A row that is active, in state PUBLISH, with a publish timestamp.
Scheduled(r) ==
  r.active /\ r.state = PUBLISH /\ r.publish_timestamp # NULL

\* C6 (Spec): a stored row that is active, PUBLISH, with publish_timestamp T
\* is not visible while now < T and visible once now >= T (now = T
\* included), by is_published and by published() alike; and a step of the
\* clock writes nothing, so the row becomes visible by the clock alone.
C6_VisibleByClockAlone ==
  /\ [](\A id \in DOMAIN store :
          Scheduled(store[id]) =>
            /\ is_published(store[id], now)
                 <=> now >= store[id].publish_timestamp
            /\ id \in published(store, now)
                 <=> now >= store[id].publish_timestamp)
  /\ [][now' # now => store' = store]_vars

\* A row last written before its publish_timestamp, now at exactly that
\* timestamp, visible.
C6_Witness ==
  \E id \in DOMAIN store :
    /\ Scheduled(store[id])
    /\ store[id].updated < store[id].publish_timestamp
    /\ store[id].publish_timestamp = now
    /\ is_published(store[id], now)
    /\ id \in published(store, now)

\* C7 (Spec): at every clock reading an inactive stored row is not visible
\* (is_published false, not selected by published(), get_video_id None);
\* and is_published is true only if active, state PUBLISH, a non-null
\* publish_timestamp and publish_timestamp <= now all hold.
C7_InactiveNeverVisible ==
  \A id \in DOMAIN store, t \in Times :
    /\ ~store[id].active =>
         /\ ~is_published(store[id], t)
         /\ id \notin published(store, t)
         /\ get_video_id(store[id], t) = None
    /\ is_published(store[id], t) =>
         /\ store[id].active
         /\ store[id].state = PUBLISH
         /\ store[id].publish_timestamp # NULL
         /\ store[id].publish_timestamp <= t

\* An inactive row in state PUBLISH whose publish_timestamp has passed.
C7_Witness ==
  \E id \in DOMAIN store :
    /\ ~store[id].active
    /\ store[id].state = PUBLISH
    /\ store[id].publish_timestamp # NULL
    /\ store[id].publish_timestamp <= now

\* C8 (SpecSlug), as claimed: after a row's first successful write its slug
\* is non-empty, and no later write changes it.
C8_SlugNonEmptyAndImmutable ==
  [][ \A id \in DOMAIN store' :
        /\ store'[id].slug \notin {NoSlug, <<>>}
        /\ id \in DOMAIN store => store'[id].slug = store[id].slug ]_vars

\* C8 (SpecSlug), amended: a stored slug is never null; it is non-empty
\* whenever the row's title yields a non-empty slug; once non-empty it is
\* never changed by a later write; and running the pre-save slug step again
\* on a stored row changes nothing.
C8_SlugImmutableOnceNonEmpty ==
  [][ \A id \in DOMAIN store' :
        /\ store'[id].slug # NoSlug
        /\ slugify(store'[id].title) # <<>> => store'[id].slug # <<>>
        /\ (id \in DOMAIN store /\ store[id].slug # <<>>)
             => store'[id].slug = store[id].slug
        /\ slugify_pre_save(store'[id]) = store'[id] ]_vars

\* A row whose title was edited to one that yields the empty slug and whose
\* slug is still the one derived at creation.
C8_Witness ==
  \E id \in DOMAIN store :
    /\ store[id].title = <<"!">>
    /\ store[id].slug = <<"h", "i">>

C10_UpdatedOnEveryMutation ==
  [][ \A id \in DOMAIN store' :
        (id \notin DOMAIN store \/ store'[id] # store[id])
          => store'[id].updated = now ]_vars

====
